---- MODULE Spec2Model ----
(***************************************************************************)
(* The item resource of shelflife: the Hono router `items` of              *)
(* apps/backend/src/routes/items.ts (list, create, update, delete), its    *)
(* zod schemas, the response envelope of lib/utils, and the persistence    *)
(* client it calls.                                                        *)
(*                                                                         *)
(* JavaScript values are tagged records; every tag has a field name of its *)
(* own, so values of different types are comparable:                       *)
(*   undefined  [t |-> "undefined"]         null  [t |-> "null"]           *)
(*   string     [t |-> "string", s |-> <<characters>>]                     *)
(*   number     [t |-> "number", nan, neg, whole, frac]                    *)
(*   boolean    [t |-> "boolean", b |-> TRUE]                              *)
(*   array      [t |-> "array", a |-> <<values>>]                          *)
(*   object     [t |-> "object", o |-> [key |-> value]]                    *)
(*   Date       [t |-> "date", y, mo, d, h, mi, sec, ms]                   *)
(* A string is the sequence of its characters, so that trim() and the      *)
(* regular expressions of the schemas are computed, not assumed.           *)
(*                                                                         *)
(* A payload is the object zValidator hands to the schema: one value per   *)
(* key, undefined for a key the request does not carry.                    *)
(*                                                                         *)
(* The source imports zod without fixing its version, and the partial      *)
(* schema of Update behaves differently under zod 3 and zod 4 (see         *)
(* updateItemSchema); the version is chosen in Init and never changes.     *)
(* A persistence call may fail for reasons outside the program (`fault`).  *)
(***************************************************************************)
EXTENDS FiniteSets, Integers, Sequences, TLC

VARIABLES
    zod,        \* major version of the zod package the build resolves
    table,      \* the Item table behind prisma.item: id -> row
    nextId,     \* the table's autoincrement counter
    clock,      \* the database clock that stamps createdAt
    served,     \* number of requests handled so far
    request,    \* the request handled last
    prismaCall, \* the persistence call the last request made, if any
    response,   \* the response to the last request
    submitted   \* history: id -> the extraInfo its Create was given, for the
                \* items no Update or Delete has succeeded on since

vars ==
    <<zod, table, nextId, clock, served, request, prismaCall, response, submitted>>

(***************************************************************************)
(* JavaScript values                                                       *)
(***************************************************************************)
Undefined == [t |-> "undefined"]
Null == [t |-> "null"]
Str(s) == [t |-> "string", s |-> s]
Num(n) == [t |-> "number", nan |-> FALSE, neg |-> n < 0,
           whole |-> IF n < 0 THEN 0 - n ELSE n, frac |-> <<>>]
NaN == [t |-> "number", nan |-> TRUE, neg |-> FALSE, whole |-> 0, frac |-> <<>>]
Arr(a) == [t |-> "array", a |-> a]
Obj(o) == [t |-> "object", o |-> o]

Digits == {"0", "1", "2", "3", "4", "5", "6", "7", "8", "9"}

DigitVal(c) ==
    CASE c = "0" -> 0 [] c = "1" -> 1 [] c = "2" -> 2 [] c = "3" -> 3
      [] c = "4" -> 4 [] c = "5" -> 5 [] c = "6" -> 6 [] c = "7" -> 7
      [] c = "8" -> 8 [] c = "9" -> 9

AllDigits(s) == \A i \in 1..Len(s) : s[i] \in Digits

RECURSIVE DigitsVal(_)
DigitsVal(s) ==
    IF s = <<>> THEN 0
    ELSE 10 * DigitsVal(SubSeq(s, 1, Len(s) - 1)) + DigitVal(s[Len(s)])

AllZero(s) == \A i \in 1..Len(s) : s[i] = "0"

\* String.prototype.trim
RECURSIVE trimStart(_)
trimStart(s) ==
    IF s # <<>> /\ Head(s) = " " THEN trimStart(Tail(s)) ELSE s

RECURSIVE trimEnd(_)
trimEnd(s) ==
    IF s # <<>> /\ s[Len(s)] = " " THEN trimEnd(SubSeq(s, 1, Len(s) - 1)) ELSE s

trim(s) == trimEnd(trimStart(s))

\* JavaScript truthiness of the values a validated payload holds
Truthy(v) ==
    CASE v.t = "undefined" -> FALSE
      [] v.t = "null" -> FALSE
      [] v.t = "string" -> v.s # <<>>
      [] v.t = "number" -> ~v.nan /\ ~(v.whole = 0 /\ AllZero(v.frac))
      [] OTHER -> TRUE

\* Number(c.req.param('id')), for segments of the form -?digits(.digits)?;
\* every other segment the model draws is not a numeric literal and gives NaN
Number(seg) ==
    LET neg == seg # <<>> /\ Head(seg) = "-"
        body == IF neg THEN Tail(seg) ELSE seg
        dots == {k \in 1..Len(body) : body[k] = "."}
    IN  IF body # <<>> /\ AllDigits(body)
        THEN [t |-> "number", nan |-> FALSE, neg |-> neg,
              whole |-> DigitsVal(body), frac |-> <<>>]
        ELSE IF \E k \in dots : /\ k > 1 /\ k < Len(body)
                                /\ AllDigits(SubSeq(body, 1, k - 1))
                                /\ AllDigits(SubSeq(body, k + 1, Len(body)))
        THEN LET k == CHOOSE k \in dots : TRUE
             IN  [t |-> "number", nan |-> FALSE, neg |-> neg,
                  whole |-> DigitsVal(SubSeq(body, 1, k - 1)),
                  frac |-> SubSeq(body, k + 1, Len(body))]
        ELSE NaN

isNaN(n) == n.nan
IsZero(n) == n.whole = 0 /\ AllZero(n.frac)
LeqZero(n) == IsZero(n) \/ n.neg
IsInteger(n) == ~n.nan /\ AllZero(n.frac)

(***************************************************************************)
(* Validation schemas                                                      *)
(***************************************************************************)
QuantityMaxFrac == 3
PriceMaxFrac == 2

\* /^\d+(\.\d{1,n})?$/
MatchesDecimal(s, n) ==
    \/ s # <<>> /\ AllDigits(s)
    \/ \E k \in 2..(Len(s) - 1) :
          /\ s[k] = "."
          /\ AllDigits(SubSeq(s, 1, k - 1))
          /\ AllDigits(SubSeq(s, k + 1, Len(s)))
          /\ Len(s) - k <= n

\* z.string().datetime(): YYYY-MM-DDTHH:MM:SS(.fraction)?Z, no offset
MatchesDatetime(s) ==
    /\ Len(s) >= 20
    /\ AllDigits(SubSeq(s, 1, 4)) /\ s[5] = "-"
    /\ AllDigits(SubSeq(s, 6, 7)) /\ s[8] = "-"
    /\ AllDigits(SubSeq(s, 9, 10)) /\ s[11] = "T"
    /\ AllDigits(SubSeq(s, 12, 13)) /\ s[14] = ":"
    /\ AllDigits(SubSeq(s, 15, 16)) /\ s[17] = ":"
    /\ AllDigits(SubSeq(s, 18, 19))
    /\ s[Len(s)] = "Z"
    /\ \/ Len(s) = 20
       \/ Len(s) >= 22 /\ s[20] = "." /\ AllDigits(SubSeq(s, 21, Len(s) - 1))

\* new Date(isoString) for a string MatchesDatetime accepts
NewDate(s) ==
    [t |-> "date",
     y |-> DigitsVal(SubSeq(s, 1, 4)), mo |-> DigitsVal(SubSeq(s, 6, 7)),
     d |-> DigitsVal(SubSeq(s, 9, 10)), h |-> DigitsVal(SubSeq(s, 12, 13)),
     mi |-> DigitsVal(SubSeq(s, 15, 16)), sec |-> DigitsVal(SubSeq(s, 18, 19)),
     ms |-> IF Len(s) = 20 THEN 0
            ELSE LET f == SubSeq(s, 21, Len(s) - 1)
                     f3 == SubSeq(f \o <<"0", "0">>, 1, 3)
                 IN  DigitsVal(f3)]

\* jsonValueSchema: string | number | boolean | null | array of itself |
\* record from string to itself
RECURSIVE jsonValueSchema(_)
jsonValueSchema(v) ==
    CASE v.t \in {"string", "number", "boolean", "null"} -> TRUE
      [] v.t = "array" -> \A i \in 1..Len(v.a) : jsonValueSchema(v.a[i])
      [] v.t = "object" -> \A k \in DOMAIN v.o : jsonValueSchema(v.o[k])
      [] OTHER -> FALSE

\* The value zod returns for an accepted JSON value: arrays and records are
\* rebuilt element by element from the parsed elements
RECURSIVE jsonValueParsed(_)
jsonValueParsed(v) ==
    CASE v.t = "array" -> Arr([i \in 1..Len(v.a) |-> jsonValueParsed(v.a[i])])
      [] v.t = "object" -> Obj([k \in DOMAIN v.o |-> jsonValueParsed(v.o[k])])
      [] OTHER -> v

Keys == {"name", "source", "category", "quantity", "unit", "usedQuantity",
         "productionDate", "expiryDate", "locationId", "price", "extraInfo"}

\* FieldAccepts with the quantity rule reduced to z.string().nullable(): the
\* regular expression is missing
FieldAcceptsAnyQuantity(k, v) ==
    CASE k = "name" -> v.t = "string" /\ Len(v.s) >= 1
      [] k \in {"source", "category", "unit", "quantity"} -> v.t \in {"string", "null"}
      [] k = "usedQuantity" ->
            v.t = "null" \/ (v.t = "string" /\ MatchesDecimal(v.s, QuantityMaxFrac))
      [] k \in {"productionDate", "expiryDate"} ->
            v.t = "null" \/ (v.t = "string" /\ MatchesDatetime(v.s))
      [] k = "locationId" ->
            v.t = "null" \/ (v.t = "number" /\ IsInteger(v) /\ ~LeqZero(v))
      [] k = "price" ->
            v.t = "null" \/ (v.t = "string" /\ MatchesDecimal(v.s, PriceMaxFrac))
      [] k = "extraInfo" ->
            v.t = "object" /\ \A f \in DOMAIN v.o : jsonValueSchema(v.o[f])

\* Whether a value other than undefined passes the field's rule
FieldAccepts(k, v) ==
    CASE k = "name" -> v.t = "string" /\ Len(v.s) >= 1
      [] k \in {"source", "category", "unit"} -> v.t \in {"string", "null"}
      [] k \in {"quantity", "usedQuantity"} ->
            v.t = "null" \/ (v.t = "string" /\ MatchesDecimal(v.s, QuantityMaxFrac))
      [] k \in {"productionDate", "expiryDate"} ->
            v.t = "null" \/ (v.t = "string" /\ MatchesDatetime(v.s))
      [] k = "locationId" ->
            v.t = "null" \/ (v.t = "number" /\ IsInteger(v) /\ ~LeqZero(v))
      [] k = "price" ->
            v.t = "null" \/ (v.t = "string" /\ MatchesDecimal(v.s, PriceMaxFrac))
      [] k = "extraInfo" ->
            v.t = "object" /\ \A f \in DOMAIN v.o : jsonValueSchema(v.o[f])

FieldParsed(k, v) == IF k = "extraInfo" THEN jsonValueParsed(v) ELSE v

UsedQuantityDefault == Str(<<"0", ".", "0">>)

\* createItemSchema.safeParse(payload): name is required, every other key is
\* optional, and usedQuantity defaults to '0.0' when undefined
createItemSchema(payload) ==
    LET ok == /\ payload["name"].t # "undefined"
              /\ \A k \in Keys :
                    payload[k].t = "undefined" \/ FieldAccepts(k, payload[k])
    IN  [success |-> ok,
         data |-> IF ~ok THEN Undefined
                  ELSE [k \in Keys |->
                          IF payload[k].t = "undefined"
                          THEN IF k = "usedQuantity"
                               THEN UsedQuantityDefault ELSE Undefined
                          ELSE FieldParsed(k, payload[k])]]

\* createItemSchema.partial().extend({}).safeParse(payload): every key is
\* wrapped in an optional. Under zod 3 the optional returns undefined for an
\* undefined input before the wrapped default is consulted; under zod 4 an
\* optional around a default hands undefined to the default, which applies.
updateItemSchema(payload, major) ==
    LET ok == \A k \in Keys :
                  payload[k].t = "undefined" \/ FieldAccepts(k, payload[k])
    IN  [success |-> ok,
         data |-> IF ~ok THEN Undefined
                  ELSE [k \in Keys |->
                          IF payload[k].t = "undefined"
                          THEN IF k = "usedQuantity" /\ major >= 4
                               THEN UsedQuantityDefault ELSE Undefined
                          ELSE FieldParsed(k, payload[k])]]

(***************************************************************************)
(* Response envelope (lib/utils) and the validator's own rejection         *)
(***************************************************************************)
Msg(text) == [t |-> "string", text |-> text]

successResponse(data, status) ==
    [status |-> status, body |-> [success |-> TRUE, data |-> data]]

errorResponse(message, status) ==
    [status |-> status, body |-> [success |-> FALSE, error |-> message]]

\* The messages of items.ts, in English
MsgListFailed == Msg("failed to fetch the item list")      \* line 77
MsgCreateFailed == Msg("failed to create the item")        \* line 117
MsgInvalidId == Msg("invalid item id")                     \* lines 126, 172
MsgNotFound == Msg("item not found")                       \* lines 162, 180
MsgUpdateFailed == Msg("failed to update the item")        \* line 166
MsgDeleteFailed == Msg("failed to delete the item")        \* line 183
MsgDeleted == Msg("item deleted")                          \* line 177

\* zValidator('form', schema) is given no hook: when safeParse fails it
\* answers c.json(result, 400) itself, where result is zod's
\* {success: false, error: ZodError}, and the handler never runs
zValidatorRejection(rejected) ==
    [status |-> 400,
     body |-> [success |-> FALSE,
               error |-> [t |-> "object", name |-> "ZodError",
                          issues |-> rejected]]]

RejectedKeys(payload) ==
    {k \in Keys : payload[k].t # "undefined" /\ ~FieldAccepts(k, payload[k])}

(***************************************************************************)
(* Field normalisation of the handlers                                     *)
(***************************************************************************)
\* v?.trim() || null
TrimOrNull(v) ==
    IF v.t = "string" /\ trim(v.s) # <<>> THEN Str(trim(v.s)) ELSE Null

\* v ? v : null
ValueOrNull(v) == IF Truthy(v) THEN v ELSE Null

\* v ? new Date(v) : null
DateOrNull(v) == IF Truthy(v) THEN NewDate(v.s) ELSE Null

\* The data object of prisma.item.create (lines 87-105); category is not in it
CreateKeys == Keys \ {"category"}

\* createField without the trim of name
createFieldUntrimmedName(k, v) ==
    CASE k = "name" -> v
      [] k \in {"source", "unit"} -> TrimOrNull(v)
      [] k \in {"quantity", "price"} -> ValueOrNull(v)
      [] k = "usedQuantity" -> v
      [] k \in {"productionDate", "expiryDate"} -> DateOrNull(v)
      [] k = "locationId" -> IF v.t \in {"null", "undefined"} THEN Undefined ELSE v
      [] k = "extraInfo" -> v

\* createField with extraInfo normalised like the optional decimals
\* (v ? v : null becomes null for it): the value is not handed on
createFieldDropsExtraInfo(k, v) ==
    CASE k = "name" -> Str(trim(v.s))
      [] k \in {"source", "unit"} -> TrimOrNull(v)
      [] k \in {"quantity", "price"} -> ValueOrNull(v)
      [] k = "usedQuantity" -> v
      [] k \in {"productionDate", "expiryDate"} -> DateOrNull(v)
      [] k = "locationId" -> IF v.t \in {"null", "undefined"} THEN Undefined ELSE v
      [] k = "extraInfo" -> Null

createField(k, v) ==
    CASE k = "name" -> Str(trim(v.s))
      [] k \in {"source", "unit"} -> TrimOrNull(v)
      [] k \in {"quantity", "price"} -> ValueOrNull(v)
      [] k = "usedQuantity" -> v
      [] k \in {"productionDate", "expiryDate"} -> DateOrNull(v)
      [] k = "locationId" -> IF v.t \in {"null", "undefined"} THEN Undefined ELSE v
      [] k = "extraInfo" -> v

createData(data) == [k \in CreateKeys |-> createField(k, data[k])]

\* updateData (lines 132-146): one assignment per key that is not undefined
\* in the validated payload; there is no assignment for category
UpdateKeys == Keys \ {"category"}

updateField(k, v) ==
    CASE k \in {"name", "source", "unit"} -> TrimOrNull(v)
      [] k \in {"quantity", "usedQuantity", "price", "extraInfo"} -> v
      [] k \in {"productionDate", "expiryDate"} -> DateOrNull(v)
      [] k = "locationId" -> IF v.t \in {"null", "undefined"} THEN Null ELSE v

updateData(data) ==
    [k \in {f \in UpdateKeys : data[f].t # "undefined"} |-> updateField(k, data[k])]

(***************************************************************************)
(* Persistence client: prisma.item over the Item table. A row holds id,    *)
(* createdAt and one column per key; the location and images relations     *)
(* that the handlers include are read-only here and are left out.          *)
(***************************************************************************)
Columns == Keys \cup {"id", "createdAt"}

NoCall == [method |-> "none"]

\* A key of a data object that is present and not undefined is written
Written(data, c) == c \in DOMAIN data /\ data[c].t # "undefined"

\* name is a required column: the client refuses a null for it
RefusesData(data) == Written(data, "name") /\ data["name"].t = "null"

\* prisma.item.create({data}): the row gets the next id and the clock's time,
\* and NULL in every column the data leaves unset
prismaCreate(tbl, id, now, data, fault) ==
    LET row == [c \in Columns |->
                  CASE c = "id" -> id
                    [] c = "createdAt" -> now
                    [] OTHER -> IF Written(data, c) THEN data[c] ELSE Null]
    IN  IF fault \/ RefusesData(data)
        THEN [threw |-> "other", table |-> tbl]
        ELSE [threw |-> "none", table |-> tbl @@ (id :> row), row |-> row]

\* prisma.item.update({where: {id}, data}): id is an Int column, so a
\* where.id that is no integer is refused; a missing record is P2025
prismaUpdate(tbl, id, data, fault) ==
    IF fault \/ ~IsInteger(id) \/ RefusesData(data)
    THEN [threw |-> "other", table |-> tbl]
    ELSE IF id.whole \notin DOMAIN tbl
    THEN [threw |-> "P2025", table |-> tbl]
    ELSE LET row == [c \in Columns |->
                       IF Written(data, c) THEN data[c] ELSE tbl[id.whole][c]]
         IN  [threw |-> "none", table |-> [tbl EXCEPT ![id.whole] = row],
              row |-> row]

\* prisma.item.delete({where: {id}})
prismaDelete(tbl, id, fault) ==
    IF fault \/ ~IsInteger(id)
    THEN [threw |-> "other", table |-> tbl]
    ELSE IF id.whole \notin DOMAIN tbl
    THEN [threw |-> "P2025", table |-> tbl]
    ELSE [threw |-> "none",
          table |-> [i \in DOMAIN tbl \ {id.whole} |-> tbl[i]]]

\* prisma.item.findMany({orderBy}): every row once, in the order asked for;
\* rows that agree on the ordering column come in either order
findMany(tbl, orderBy) ==
    LET n == Cardinality(DOMAIN tbl)
        Before(a, b) == IF orderBy.dir = "desc"
                        THEN a[orderBy.column] >= b[orderBy.column]
                        ELSE a[orderBy.column] <= b[orderBy.column]
    IN  {[i \in 1..n |-> tbl[o[i]]] :
            o \in {f \in [1..n -> DOMAIN tbl] :
                     \A i, j \in 1..n :
                        i < j => f[i] # f[j] /\ Before(tbl[f[i]], tbl[f[j]])}}

(***************************************************************************)
(* The handlers of the router `items`                                      *)
(***************************************************************************)
\* The list ordered oldest first
ListOrderByAsc == [column |-> "createdAt", dir |-> "asc"]

\* orderBy: { createdAt: 'desc' }
ListOrderBy == [column |-> "createdAt", dir |-> "desc"]

Handled(req, call, resp, tbl) ==
    /\ request' = req
    /\ prismaCall' = call
    /\ response' = resp
    /\ table' = tbl
    /\ served' = served + 1
    /\ zod' = zod

\* items.get('/')
List(fault) ==
    \E rows \in findMany(table, ListOrderBy) :
        /\ Handled([method |-> "GET"],
                   [method |-> "findMany", fault |-> fault,
                    threw |-> IF fault THEN "other" ELSE "none"],
                   IF fault THEN errorResponse(MsgListFailed, 500)
                   ELSE successResponse([list |-> rows], 200),
                   table)
        /\ UNCHANGED <<nextId, clock, submitted>>

\* items.post('/', zValidator('form', createItemSchema), ...)
Create(payload, fault, now) ==
    LET parsed == createItemSchema(payload)
        req == [method |-> "POST", payload |-> payload]
    IN  IF ~parsed.success
        THEN /\ Handled(req, NoCall,
                        zValidatorRejection(
                            RejectedKeys(payload) \cup
                            (IF payload["name"].t = "undefined" THEN {"name"} ELSE {})),
                        table)
             /\ UNCHANGED <<nextId, clock, submitted>>
        ELSE LET data == createData(parsed.data)
                 out == prismaCreate(table, nextId, now, data, fault)
                 call == [method |-> "create", data |-> data, fault |-> fault,
                          threw |-> out.threw]
             IN  IF out.threw = "none"
                 THEN /\ Handled(req, call,
                                 successResponse([item |-> out.row], 201), out.table)
                      /\ nextId' = nextId + 1
                      /\ clock' = now
                      /\ submitted' = submitted @@ (nextId :> payload["extraInfo"])
                 ELSE /\ Handled(req, call,
                                 errorResponse(MsgCreateFailed, 500), out.table)
                      /\ UNCHANGED <<nextId, clock, submitted>>

\* items.put('/:id', zValidator('form', createItemSchema.partial().extend({})), ...)
Update(seg, payload, fault) ==
    LET parsed == updateItemSchema(payload, zod)
        req == [method |-> "PUT", seg |-> seg, payload |-> payload]
        id == Number(seg)
    IN  /\ UNCHANGED <<nextId, clock>>
        /\ IF ~parsed.success
           THEN Handled(req, NoCall,
                        zValidatorRejection(RejectedKeys(payload)), table)
           ELSE IF isNaN(id) \/ LeqZero(id)
           THEN Handled(req, NoCall, errorResponse(MsgInvalidId, 400), table)
           ELSE LET data == updateData(parsed.data)
                    out == prismaUpdate(table, id, data, fault)
                    call == [method |-> "update", where |-> id, data |-> data,
                             fault |-> fault, threw |-> out.threw]
                IN  CASE out.threw = "none" ->
                            Handled(req, call,
                                    successResponse([item |-> out.row], 200), out.table)
                      [] out.threw = "P2025" ->
                            Handled(req, call, errorResponse(MsgNotFound, 404), out.table)
                      [] OTHER ->
                            Handled(req, call, errorResponse(MsgUpdateFailed, 500),
                                    out.table)
        /\ submitted' = [i \in {j \in DOMAIN submitted : table'[j] = table[j]} |->
                            submitted[i]]

\* items.delete('/:id', ...)
Delete(seg, fault) ==
    LET req == [method |-> "DELETE", seg |-> seg]
        id == Number(seg)
    IN  /\ UNCHANGED <<nextId, clock>>
        /\ IF isNaN(id) \/ LeqZero(id)
           THEN Handled(req, NoCall, errorResponse(MsgInvalidId, 400), table)
           ELSE LET out == prismaDelete(table, id, fault)
                    call == [method |-> "delete", where |-> id, fault |-> fault,
                             threw |-> out.threw]
                IN  CASE out.threw = "none" ->
                            Handled(req, call,
                                    successResponse([message |-> MsgDeleted], 200),
                                    out.table)
                      [] out.threw = "P2025" ->
                            Handled(req, call, errorResponse(MsgNotFound, 404), out.table)
                      [] OTHER ->
                            Handled(req, call, errorResponse(MsgDeleteFailed, 500),
                                    out.table)
        /\ submitted' = [i \in DOMAIN submitted \cap DOMAIN table' |-> submitted[i]]

(***************************************************************************)
(* Requests the specifications draw                                        *)
(***************************************************************************)
NoPayload == [k \in Keys |-> Undefined]
With(p, k, v) == [p EXCEPT ![k] = v]

\* Field values: accepted ones, rejected ones, and the edge cases of the
\* normalisation (blank strings, explicit nulls)
FieldValues(k) ==
    CASE k = "name" ->
            {Str(<<>>), Str(<<" ", " ">>), Str(<<" ", "m", " ">>), Null}
      [] k = "source" -> {Str(<<" ">>), Str(<<"s", " ">>), Null}
      [] k = "category" -> {Str(<<"c">>)}
      [] k = "quantity" ->
            {Str(<<"1", ".", "5">>), Str(<<"1", "2", ".", "3", "4", "5", "6">>),
             Str(<<"a", "b", "c">>), Str(<<>>), Null}
      [] k = "unit" -> {Str(<<" ", "k", "g">>)}
      [] k = "usedQuantity" -> {Str(<<"2", ".", "5">>), Null}
      [] k = "productionDate" ->
            {Str(<<"2", "0", "2", "4", "-", "0", "1", "-", "0", "2", "T",
                   "0", "3", ":", "0", "4", ":", "0", "5", "Z">>),
             Str(<<"2", "0", "2", "4", "-", "0", "1", "-", "0", "2">>), Null}
      [] k = "expiryDate" ->
            {Str(<<"2", "0", "2", "5", "-", "0", "1", "-", "0", "2", "T",
                   "0", "3", ":", "0", "4", ":", "0", "5", ".", "5", "Z">>)}
      [] k = "locationId" -> {Num(1), Num(0), Null}
      [] k = "price" ->
            {Str(<<"9", ".", "9", "9">>), Str(<<"9", ".", "9", "9", "9">>)}
      [] k = "extraInfo" ->
            {\* {"a": [1, "b", {"c": null}]}
             Obj("a" :> Arr(<<Num(1), Str(<<"b">>), Obj("c" :> Null)>>)),
             \* {}
             Obj(<<>>),
             \* [1]: not a record
             Arr(<<Num(1)>>)}

\* Update payloads: no key, or one key with each of its values
OneKeyPayloads ==
    {NoPayload} \cup
    UNION {{With(NoPayload, k, v) : v \in FieldValues(k)} : k \in Keys}

\* Create payloads: the same, with and without a name
CreatePayloads ==
    OneKeyPayloads \cup
    {With(p, "name", Str(n)) : p \in OneKeyPayloads,
                               n \in {<<" ", " ">>, <<" ", "m", " ">>}}

\* Path segments for :id
Segments ==
    {<<"0">>, <<"-", "1">>, <<"a", "b", "c">>, <<"1", ".", "5">>,
     <<"1">>, <<"2">>, <<"3">>, <<"9">>}

ZodMajors == {3, 4}

Init ==
    /\ zod \in ZodMajors
    /\ table = <<>>
    /\ nextId = 1
    /\ clock = 0
    /\ served = 0
    /\ request = [method |-> "none"]
    /\ prismaCall = NoCall
    /\ response = [status |-> 0]
    /\ submitted = <<>>

\* The first specification: few requests, every field value. Each Create is
\* stamped later than the one before it.
MaxRequests == 2

ListRequest ==
    /\ served < MaxRequests
    /\ \E fault \in BOOLEAN : List(fault)

CreateRequest ==
    /\ served < MaxRequests
    /\ \E p \in CreatePayloads, fault \in BOOLEAN : Create(p, fault, clock + 1)

UpdateRequest ==
    /\ served < MaxRequests
    /\ \E seg \in {<<"1">>, <<"9">>}, p \in OneKeyPayloads, fault \in BOOLEAN :
          Update(seg, p, fault)

DeleteRequest ==
    /\ served < MaxRequests
    /\ \E seg \in {<<"1">>, <<"9">>}, fault \in BOOLEAN : Delete(seg, fault)

Next == ListRequest \/ CreateRequest \/ UpdateRequest \/ DeleteRequest

Spec == Init /\ [][Next]_vars

\* The first specification for a build that resolves zod 3
InitZod3 == Init /\ zod = 3

SpecZod3 == InitZod3 /\ [][Next]_vars

\* The second specification: every path segment, few payloads
MaxLifecycleRequests == 4

LifecyclePayloads ==
    {NoPayload,
     With(NoPayload, "name", Str(<<" ", "m", " ">>)),
     With(NoPayload, "name", Str(<<" ", " ">>)),
     With(NoPayload, "price", Str(<<"9", ".", "9", "9">>)),
     With(NoPayload, "quantity", Str(<<"a", "b", "c">>))}

LifecycleList ==
    /\ served < MaxLifecycleRequests
    /\ \E fault \in BOOLEAN : List(fault)

LifecycleCreate ==
    /\ served < MaxLifecycleRequests
    /\ \E p \in LifecyclePayloads, fault \in BOOLEAN : Create(p, fault, clock + 1)

LifecycleUpdate ==
    /\ served < MaxLifecycleRequests
    /\ \E seg \in Segments, p \in LifecyclePayloads, fault \in BOOLEAN :
          Update(seg, p, fault)

LifecycleDelete ==
    /\ served < MaxLifecycleRequests
    /\ \E seg \in Segments, fault \in BOOLEAN : Delete(seg, fault)

NextLifecycle ==
    LifecycleList \/ LifecycleCreate \/ LifecycleUpdate \/ LifecycleDelete

SpecLifecycle == Init /\ [][NextLifecycle]_vars

\* The third specification: longer runs over a few items, for the order of
\* the list. Two Creates may be stamped with the same time.
MaxListingRequests == 6

ListingPayloads ==
    {With(NoPayload, "name", Str(<<" ", "m", " ">>)),
     With(NoPayload, "price", Str(<<"9", ".", "9", "9">>))}

ListingSegments == {<<"1">>, <<"2">>, <<"3">>}

ListingList ==
    /\ served < MaxListingRequests
    /\ List(FALSE)

ListingCreate ==
    /\ served < MaxListingRequests
    /\ \E p \in ListingPayloads, now \in {clock, clock + 1} : Create(p, FALSE, now)

ListingUpdate ==
    /\ served < MaxListingRequests
    /\ \E seg \in ListingSegments, p \in ListingPayloads : Update(seg, p, FALSE)

ListingDelete ==
    /\ served < MaxListingRequests
    /\ \E seg \in ListingSegments, fault \in BOOLEAN : Delete(seg, fault)

NextListing == ListingList \/ ListingCreate \/ ListingUpdate \/ ListingDelete

SpecListing == Init /\ [][NextListing]_vars

(***************************************************************************)
(* Properties                                                              *)
(***************************************************************************)
ExampleExtraInfo == Obj("a" :> Arr(<<Num(1), Str(<<"b">>), Obj("c" :> Null)>>))

\* A path segment that parses as a positive integer
PositiveIntegerSegment(seg) == IsInteger(Number(seg)) /\ ~LeqZero(Number(seg))

\* A non-empty string without surrounding whitespace
CleanName(v) ==
    v.t = "string" /\ v.s # <<>> /\ Head(v.s) # " " /\ v.s[Len(v.s)] # " "

\* {success: true, data} or {success: false, error: <string>}
Envelope(body) ==
    \/ body.success /\ DOMAIN body = {"success", "data"}
    \/ ~body.success /\ DOMAIN body = {"success", "error"} /\ body.error.t = "string"

\* C1: an Update leaves every stored field whose key is absent from its
\* payload as it was before the Update (and stores no new item, drops none).
C1_AbsentKeysUnchanged ==
    [][request'.method = "PUT" =>
          /\ DOMAIN table' = DOMAIN table
          /\ \A id \in DOMAIN table : \A k \in Keys :
                request'.payload[k].t = "undefined" => table'[id][k] = table[id][k]]_vars

\* C2: the data of prisma.item.update has exactly the keys present in the
\* Update payload, each with the value Create's normalisation gives it.
C2_UpdateSetIsPresentKeys ==
    (request.method = "PUT" /\ prismaCall.method = "update") =>
        LET present == {k \in Keys : request.payload[k].t # "undefined"}
        IN  /\ DOMAIN prismaCall.data = present
            /\ \A k \in present :
                  prismaCall.data[k] = createField(k, FieldParsed(k, request.payload[k]))

\* C3: an Update or Delete whose id segment does not parse as a positive
\* integer is answered 400, makes no persistence call and changes no stored
\* item; an Update is answered so whatever its payload (the id is checked
\* before the payload is validated).
C3_InvalidIdRejectedFirst ==
    [][(request'.method \in {"PUT", "DELETE"}
        /\ ~PositiveIntegerSegment(request'.seg)) =>
          /\ response'.status = 400
          /\ prismaCall' = NoCall
          /\ table' = table
          /\ request'.method = "PUT" =>
                response' = errorResponse(MsgInvalidId, 400)]_vars

\* C4: an Update (with a payload the schema accepts) or a Delete of a
\* positive integer id that is not stored, when the database itself does
\* not fail, is answered 404 with the not-found message.
C4_MissingIdIsNotFound ==
    [][(/\ request'.method \in {"PUT", "DELETE"}
        /\ PositiveIntegerSegment(request'.seg)
        /\ Number(request'.seg).whole \notin DOMAIN table
        /\ request'.method = "PUT" =>
              updateItemSchema(request'.payload, zod).success
        /\ prismaCall' # NoCall => ~prismaCall'.fault) =>
          response' = errorResponse(MsgNotFound, 404)]_vars

\* C5: the item a Create persists and returns has the payload's name
\* trimmed, and usedQuantity "0.0" when the payload has no usedQuantity.
C5_CreatedNameTrimmedAndDefault ==
    (request.method = "POST" /\ response.status = 201) =>
        LET item == response.body.data.item
        IN  /\ item["name"] = Str(trim(request.payload["name"].s))
            /\ item["id"] \in DOMAIN table
            /\ table[item["id"]] = item
            /\ request.payload["usedQuantity"].t = "undefined" =>
                  item["usedQuantity"] = Str(<<"0", ".", "0">>)

C5_Witness ==
    /\ request.method = "POST"
    /\ response.status = 201
    /\ request.payload["name"] = Str(<<" ", "m", " ">>)
    /\ request.payload["usedQuantity"].t = "undefined"
    /\ response.body.data.item["name"] = Str(<<"m">>)
    /\ response.body.data.item["usedQuantity"] = Str(<<"0", ".", "0">>)

\* C6: every stored name, and every name handed to prisma.item.create or
\* prisma.item.update, is a non-empty string without surrounding whitespace.
C6_NamesNonEmptyTrimmed ==
    /\ \A id \in DOMAIN table : CleanName(table[id]["name"])
    /\ (prismaCall.method \in {"create", "update"}
        /\ "name" \in DOMAIN prismaCall.data) => CleanName(prismaCall.data["name"])

\* C7: a Create or Update whose quantity is a string that does not match
\* /^\d+(\.\d{1,3})?$/ is rejected: no persistence call, no stored item
\* changed, status 400.
C7_BadQuantityRejected ==
    [][(/\ request'.method \in {"POST", "PUT"}
        /\ request'.payload["quantity"].t = "string"
        /\ ~MatchesDecimal(request'.payload["quantity"].s, QuantityMaxFrac)) =>
          /\ prismaCall' = NoCall
          /\ table' = table
          /\ response'.status = 400
          /\ ~response'.body.success]_vars

C7_Witness ==
    /\ request.method = "PUT"
    /\ request.payload["quantity"] = Str(<<"1", "2", ".", "3", "4", "5", "6">>)
    /\ table # <<>>
    /\ PositiveIntegerSegment(request.seg)
    /\ Number(request.seg).whole \in DOMAIN table
    /\ response.status = 400
    /\ prismaCall = NoCall

\* C8: every response is {success: true, data} or {success: false,
\* error: <string>}, and a persistence exception other than not-found is
\* answered 500 with one of the fixed messages.
C8_EveryResponseIsEnvelope ==
    request.method # "none" =>
        /\ Envelope(response.body)
        /\ (prismaCall # NoCall /\ prismaCall.threw = "other") =>
              /\ response.status = 500
              /\ response.body.error \in
                    {MsgListFailed, MsgCreateFailed, MsgUpdateFailed, MsgDeleteFailed}

C10_ListNewestFirst ==
    [][/\ (request'.method = "GET" /\ response'.status = 200) =>
            LET list == response'.body.data.list
            IN  /\ Len(list) = Cardinality(DOMAIN table)
                /\ \A id \in DOMAIN table : \E i \in 1..Len(list) : list[i] = table[id]
                /\ \A i, j \in 1..Len(list) :
                      i < j => list[i]["createdAt"] >= list[j]["createdAt"]
       /\ request'.method = "PUT" =>
            /\ DOMAIN table' = DOMAIN table
            /\ \A id \in DOMAIN table :
                  table'[id]["createdAt"] = table[id]["createdAt"]]_vars

C10_Witness ==
    /\ request.method = "GET"
    /\ response.status = 200
    /\ Len(response.body.data.list) = 3
    /\ response.body.data.list[1]["id"] = 3
    /\ response.body.data.list[2]["id"] = 2
    /\ response.body.data.list[3]["id"] = 1
    /\ response.body.data.list[1]["createdAt"] > response.body.data.list[2]["createdAt"]
    /\ response.body.data.list[2]["createdAt"] > response.body.data.list[3]["createdAt"]
    /\ response.body.data.list[3]["price"] = Str(<<"9", ".", "9", "9">>)

====
